---------------------------- MODULE Spec2Model ----------------------------
(***************************************************************************)
(* CycleSnap: geometric time stretching of a MIDI loop.                    *)
(*                                                                         *)
(*   GeometricTimeSolver.cpp   the series math and the five solve modes    *)
(*   MidiGridModel.cpp         loading a source and cutting it into a grid *)
(*   MidiTransformEngine.cpp   the engine that owns one grid model         *)
(*                                                                         *)
(* Numbers.  The code computes in double.  Here a dimensionless double (a  *)
(* multiplier, a ratio, a loop count) is a fixed-point integer counting    *)
(* millionths (Scale), and a double that holds ticks, or beats per minute, *)
(* is a fixed-point integer counting thousandths (TickScale).  Every       *)
(* product and quotient is rounded down to the grid, as a double rounds    *)
(* to its own; values above FxMax saturate there, as a double saturates at *)
(* infinity.  A tolerance smaller than the grid (1e-7) is therefore met    *)
(* exactly when the difference is 0.                                       *)
(***************************************************************************)
EXTENDS Integers, Sequences, FiniteSets, TLC

VARIABLES
    model,         \* MidiTransformEngine::model, the MidiGridModel:
                   \*   hasLoaded, sourceMidi = [timeFormat, tracks], midiFormat,
                   \*   initialBpm, totalDurationTicks, timePoints,
                   \*   segmentDeltas (the last four in thousandths),
                   \*   eventSegments
    isGenerated,   \* MidiTransformEngine::isGenerated
    generatedMidi, \* MidiTransformEngine::generatedMidi = [timeFormat, tracks]
    loadResult,    \* what the last loadSource returned, and whether it found
                   \* a loaded source in place
    call,          \* the last call made, with its inputs
    res,           \* the CalculationResult the last call returned, if it was
                   \* a solve; default-constructed otherwise
    divisors,      \* what that solve worked on and divided by
    generateButton, \* MainComponent::generateButton is enabled
    saveButton     \* MainComponent::saveButton is enabled

vars == << model, isGenerated, generatedMidi, loadResult, call, res, divisors,
          generateButton, saveButton >>

-----------------------------------------------------------------------------
(* Fixed-point arithmetic standing for double.                             *)

Scale == 1000000
TickScale == 1000
FxMax == 1000000000

ONE == Scale

Abs(x) == IF x < 0 THEN -x ELSE x

Max(a, b) == IF a < b THEN b ELSE a

\* a + b for a, b in 0..FxMax, saturating.
SatAdd(a, b) == IF a >= FxMax - b THEN FxMax ELSE a + b

\* x * n for x in 0..FxMax and an integer n >= 0, saturating.
SatTimes(x, n) ==
    IF n = 0 \/ x = 0 THEN 0
    ELSE IF x > FxMax \div n THEN FxMax ELSE x * n

\* floor(a * b / Scale) for a, b in 0..FxMax, saturating: the product of a
\* value of either grid and a multiplier, on the grid of a.
Mul(a, b) ==
    LET aq == a \div Scale
        ar == a % Scale
        bq == b \div Scale
        br == b % Scale
        a1 == ar \div 1000
        a0 == ar % 1000
        b1 == br \div 1000
        b0 == br % 1000
        low == a1 * b1 + ((a1 * b0 + a0 * b1) * 1000 + a0 * b0) \div Scale
    IN  IF aq * bq >= FxMax \div Scale THEN FxMax
        ELSE SatAdd(SatAdd(aq * bq * Scale, aq * br),
                    SatAdd(ar * bq, low))

RECURSIVE LongDivDigits(_, _, _, _)
LongDivDigits(r, b, n, acc) ==
    IF n = 0 THEN acc
    ELSE LongDivDigits((r * 10) % b, b, n - 1, acc * 10 + (r * 10) \div b)

\* floor(a * scale / b) for a >= 0, 0 <= b <= FxMax \div 10 and scale a power
\* of ten with the given number of digits, saturating; a / 0 is infinity.
LongDiv(a, b, scale, digits) ==
    IF b = 0 THEN FxMax
    ELSE IF a \div b >= FxMax \div scale THEN FxMax
    ELSE (a \div b) * scale + LongDivDigits(a % b, b, digits, 0)

\* a / b as a ratio (millionths), a and b on one grid.
Div(a, b) == LongDiv(a, b, Scale, 6)

\* std::pow(s, k) for an integer k >= 0.
RECURSIVE Pow(_, _)
Pow(s, k) == IF k = 0 THEN ONE ELSE Mul(Pow(s, k - 1), s)

RECURSIVE RootSearch(_, _, _, _)
RootSearch(x, n, lo, hi) ==
    IF hi - lo <= 1 THEN lo
    ELSE LET mid == lo + (hi - lo) \div 2
         IN  IF Pow(mid, n) <= x THEN RootSearch(x, n, mid, hi)
             ELSE RootSearch(x, n, lo, mid)

\* std::pow(x, 1.0 / n) for x > 0 and an integer n >= 1: the largest y of the
\* grid with y^n <= x.
Root(x, n) == IF n = 1 THEN x ELSE RootSearch(x, n, 0, Max(x, ONE) + 1)

\* std::round of a non-negative ratio, and of one times an integer count.
Round(x) == (x + Scale \div 2) \div Scale

\* round(x * n) for a ratio x and an integer n >= 0, as an int: exact, where
\* the product itself would leave the grid.
RoundTimes(x, n) == (x \div Scale) * n + Round((x % Scale) * n)

\* std::llround of a non-negative tick value.
LLRound(t) == (t + TickScale \div 2) \div TickScale

\* |x| < 1 / inv for a ratio x, and x <= 1 / inv for a tick value x.
BelowInv(x, inv) == Abs(x) < (Scale + inv - 1) \div inv

TickAtMostInv(x, inv) == x <= TickScale \div inv

RECURSIVE SumSeq(_)
SumSeq(s) == IF s = << >> THEN 0 ELSE Head(s) + SumSeq(Tail(s))

-----------------------------------------------------------------------------
(* GeometricTimeSolver.cpp: the helpers.                                   *)

kMaxBisectionIters == 100
kEpsilonInv == 10000000
LinearTolInv == 1000
MaxDoublings == 30
ScanFloor == 1000
ScanPerSegment == 100
DoubleMax == 2147483647

\* The summation loop, with std::pow(s_step, k) carried along as pow_k.
RECURSIVE SeriesLoop(_, _, _, _, _, _)
SeriesLoop(deltas, n_steps, s_step, k, pow_k, total) ==
    IF k >= n_steps THEN total
    ELSE SeriesLoop(deltas, n_steps, s_step, k + 1, Mul(pow_k, s_step),
                    SatAdd(total, Mul(deltas[(k % Len(deltas)) + 1], pow_k)))

SeriesTotal(deltas, n_steps, s_step) ==
    SeriesLoop(deltas, n_steps, s_step, 0, ONE, 0)

\* A variant that sums the series for every multiplier, 1.0 included.
compute_duration_always_summing(deltas, n_steps, s_step, source_dur) ==
    IF deltas = << >> \/ TickAtMostInv(source_dur, kEpsilonInv) THEN 0
    ELSE Div(SeriesTotal(deltas, n_steps, s_step), source_dur)

compute_duration_with_step_s(deltas, n_steps, s_step, source_dur) ==
    IF deltas = << >> \/ TickAtMostInv(source_dur, kEpsilonInv) THEN 0
    ELSE IF BelowInv(s_step - ONE, kEpsilonInv) THEN Div(n_steps, Len(deltas))
    ELSE Div(SeriesTotal(deltas, n_steps, s_step), source_dur)

RECURSIVE ExpandHigh(_, _, _, _, _, _)
ExpandHigh(deltas, n, target_r, source_dur, high, safety) ==
    IF compute_duration_with_step_s(deltas, n, high, source_dur) < target_r
       /\ safety < MaxDoublings
    THEN ExpandHigh(deltas, n, target_r, source_dur, SatTimes(high, 2), safety + 1)
    ELSE high

\* The rest of the loop once the bracket is one grid step wide: the doubles
\* go on halving it around the crossing of target_r, so the multiplier
\* returned is, to the grid, the end of the bracket whose ratio is nearer.
BisectConverged(deltas, n, target_r, source_dur, low, high) ==
    IF Abs(compute_duration_with_step_s(deltas, n, high, source_dur) - target_r)
         < Abs(compute_duration_with_step_s(deltas, n, low, source_dur) - target_r)
    THEN high
    ELSE low

RECURSIVE Bisect(_, _, _, _, _, _, _)
Bisect(deltas, n, target_r, source_dur, low, high, i) ==
    LET mid == low + (high - low) \div 2
        r_mid == compute_duration_with_step_s(deltas, n, mid, source_dur)
    IN  IF i >= kMaxBisectionIters THEN mid
        ELSE IF high - low <= 1
             THEN BisectConverged(deltas, n, target_r, source_dur, low, high)
        ELSE IF BelowInv(r_mid - target_r, kEpsilonInv) THEN mid
        ELSE IF r_mid < target_r
             THEN Bisect(deltas, n, target_r, source_dur, mid, high, i + 1)
             ELSE Bisect(deltas, n, target_r, source_dur, low, mid, i + 1)

solve_s_step_bisection(deltas, n, target_r, source_dur) ==
    LET linear_r == Div(n, Len(deltas))
    IN  IF BelowInv(target_r - linear_r, LinearTolInv) THEN ONE
        ELSE Bisect(deltas, n, target_r, source_dur,
                    Scale \div 100000,
                    ExpandHigh(deltas, n, target_r, source_dur, 2 * ONE, 0),
                    0)

ScanLimit(deltas) == Max(ScanFloor, Len(deltas) * ScanPerSegment)

\* A variant of the scan that takes a candidate as good as the best so far.
RECURSIVE ScanFitLastOfEquals(_, _, _, _, _, _, _, _)
ScanFitLastOfEquals(deltas, s_step, target_r, source_dur, step_stride, k, min_diff, best_n) ==
    IF k > ScanLimit(deltas) THEN best_n
    ELSE LET r == compute_duration_with_step_s(deltas, k, s_step, source_dur)
             diff == Abs(r - target_r)
             min2 == IF diff <= min_diff THEN diff ELSE min_diff
             best2 == IF diff <= min_diff THEN k ELSE best_n
         IN  IF r > target_r /\ diff > min2 THEN best2
             ELSE ScanFitLastOfEquals(deltas, s_step, target_r, source_dur, step_stride,
                                      k + step_stride, min2, best2)

RECURSIVE ScanFit(_, _, _, _, _, _, _, _)
ScanFit(deltas, s_step, target_r, source_dur, step_stride, k, min_diff, best_n) ==
    IF k > ScanLimit(deltas) THEN best_n
    ELSE LET r == compute_duration_with_step_s(deltas, k, s_step, source_dur)
             diff == Abs(r - target_r)
             min2 == IF diff < min_diff THEN diff ELSE min_diff
             best2 == IF diff < min_diff THEN k ELSE best_n
         IN  IF r > target_r /\ diff > min2 THEN best2
             ELSE ScanFit(deltas, s_step, target_r, source_dur, step_stride,
                          k + step_stride, min2, best2)

find_best_fit_n(deltas, s_step, target_r, source_dur, step_stride) ==
    ScanFit(deltas, s_step, target_r, source_dur, step_stride,
            step_stride, DoubleMax, step_stride)

RECURSIVE ScanFitFixedEnd(_, _, _, _, _, _, _, _)
ScanFitFixedEnd(deltas, target_end, target_r, source_dur, step_stride, k, min_diff, best_n) ==
    IF k > ScanLimit(deltas) THEN best_n
    ELSE LET s_step == Root(target_end, k - 1)
             r == compute_duration_with_step_s(deltas, k, s_step, source_dur)
             diff == Abs(r - target_r)
             min2 == IF diff < min_diff THEN diff ELSE min_diff
             best2 == IF diff < min_diff THEN k ELSE best_n
         IN  IF r > target_r /\ diff > min2 THEN best2
             ELSE ScanFitFixedEnd(deltas, target_end, target_r, source_dur,
                                  step_stride, k + step_stride, min2, best2)

LinearEndCount(deltas, target_r, step_stride) ==
    LET n == RoundTimes(target_r, Len(deltas))
        q == ((n + step_stride \div 2) \div step_stride) * step_stride
    IN  IF n % step_stride /= 0
        THEN (IF q < step_stride THEN step_stride ELSE q)
        ELSE n

find_best_fit_n_with_fixed_end(deltas, target_end, target_r, source_dur, step_stride) ==
    IF BelowInv(target_end - ONE, LinearTolInv)
    THEN LinearEndCount(deltas, target_r, step_stride)
    ELSE LET start == IF step_stride < 2 THEN 2 ELSE step_stride
         IN  ScanFitFixedEnd(deltas, target_end, target_r, source_dur,
                             step_stride, start, DoubleMax, start)

-----------------------------------------------------------------------------
(* GeometricTimeSolver.cpp: solve.                                         *)

Modes == {"TargetTotalScale", "FixedBeatRatio", "MatchBeatEnd", "FitToCurve",
          "FitEndAndRatio"}

FallbackDelta == 960
DefaultPpq == 960
MsPerMinute == 60000

\* CalculationResult as default-constructed.
DefaultResult ==
    [success |-> FALSE, message |-> "", beatRatio |-> ONE, totalScale |-> 0,
     beatEnd |-> ONE, repetitions |-> 0, stepScale |-> ONE,
     realizedScale |-> 0, errorTicks |-> 0, errorMs |-> 0]

Failed(message) == [DefaultResult EXCEPT !.message = message]

WorkDeltas(deltas) == IF deltas = << >> THEN << FallbackDelta * TickScale >> ELSE deltas

\* A variant that keeps the caller's duration when the deltas are replaced.
WorkDurOfCaller(deltas, sourceDur) == sourceDur

WorkDur(deltas, sourceDur) == IF deltas = << >> THEN FallbackDelta * TickScale ELSE sourceDur

SegCount(deltas) == IF Len(WorkDeltas(deltas)) < 1 THEN 1 ELSE Len(WorkDeltas(deltas))

SearchStride(deltas, constrainToIntegerReps) ==
    IF constrainToIntegerReps THEN SegCount(deltas) ELSE 1

loopToStep(s_loop, m_seg_count) == Root(s_loop, m_seg_count)

stepToLoop(s_step, m_seg_count) == Pow(s_step, m_seg_count)

\* The clamp that ends the conversion of a loop count to a step count.
ClampSteps(n) == IF n < 1 THEN 1 ELSE n

\* round(targetReps * M), re-quantized to a multiple of M when asked, clamped.
StepCount(targetReps, m_seg_count, constrainToIntegerReps) ==
    LET n == Round(SatTimes(targetReps, m_seg_count))
    IN  ClampSteps(IF constrainToIntegerReps
                   THEN ((n + m_seg_count \div 2) \div m_seg_count) * m_seg_count
                   ELSE n)

\* The per-mode validation at the head of each case of the switch.
\* A variant whose two fit modes look at their first input only.
ModeInputsOkFirstOnly(mode, inputBeatRatio, targetTotalScale, inputBeatEnd) ==
    CASE mode = "TargetTotalScale" -> ~(targetTotalScale <= 0)
      [] mode = "FixedBeatRatio" -> ~(inputBeatRatio <= 0)
      [] mode = "MatchBeatEnd" -> ~(inputBeatEnd <= 0)
      [] mode = "FitToCurve" -> ~(inputBeatRatio <= 0)
      [] mode = "FitEndAndRatio" -> ~(inputBeatEnd <= 0)

ModeInputsOk(mode, inputBeatRatio, targetTotalScale, inputBeatEnd) ==
    CASE mode = "TargetTotalScale" -> ~(targetTotalScale <= 0)
      [] mode = "FixedBeatRatio" -> ~(inputBeatRatio <= 0)
      [] mode = "MatchBeatEnd" -> ~(inputBeatEnd <= 0)
      [] mode = "FitToCurve" -> ~(inputBeatRatio <= 0 \/ targetTotalScale <= 0)
      [] mode = "FitEndAndRatio" -> ~(inputBeatEnd <= 0 \/ targetTotalScale <= 0)

ModeFailureMessage(mode) ==
    CASE mode = "TargetTotalScale" -> "Total Scale > 0 required"
      [] mode = "FixedBeatRatio" -> "Beat Ratio > 0 required"
      [] mode = "MatchBeatEnd" -> "Beat End > 0 required"
      [] mode = "FitToCurve" -> "Invalid Input"
      [] mode = "FitEndAndRatio" -> "Invalid Input"

\* The basic validation ahead of the switch.
RepsOk(mode, targetReps) ==
    ~(targetReps <= 0 /\ mode /= "FitToCurve" /\ mode /= "FitEndAndRatio")

\* The switch, for inputs that pass its validation: the result of the selected
\* mode, before the inferred stats.
SolveMode(mode, targetReps, inputBeatRatio, targetTotalScale, inputBeatEnd, work_deltas, work_dur, m_seg_count, search_stride, constrainToIntegerReps) ==
    CASE mode = "TargetTotalScale" ->
           LET n == StepCount(targetReps, m_seg_count, constrainToIntegerReps)
               s == solve_s_step_bisection(work_deltas, n, targetTotalScale, work_dur)
           IN  [DefaultResult EXCEPT
                  !.repetitions = n, !.totalScale = targetTotalScale,
                  !.stepScale = s, !.beatRatio = stepToLoop(s, m_seg_count),
                  !.message = "Solved Beat Ratio"]
      [] mode = "FixedBeatRatio" ->
           LET n == StepCount(targetReps, m_seg_count, constrainToIntegerReps)
               s == loopToStep(inputBeatRatio, m_seg_count)
           IN  [DefaultResult EXCEPT
                  !.repetitions = n, !.beatRatio = inputBeatRatio,
                  !.stepScale = s,
                  !.totalScale = compute_duration_with_step_s(work_deltas, n, s, work_dur),
                  !.message = "Calculated Total Scale"]
      [] mode = "MatchBeatEnd" ->
           LET n == StepCount(targetReps, m_seg_count, constrainToIntegerReps)
               s == IF n > 1 THEN Root(inputBeatEnd, n - 1) ELSE ONE
           IN  [DefaultResult EXCEPT
                  !.repetitions = n, !.stepScale = s,
                  !.beatRatio = stepToLoop(s, m_seg_count),
                  !.totalScale = compute_duration_with_step_s(work_deltas, n, s, work_dur),
                  !.message = "Solved Ratio from End"]
      [] mode = "FitToCurve" ->
           LET s == loopToStep(inputBeatRatio, m_seg_count)
           IN  [DefaultResult EXCEPT
                  !.beatRatio = inputBeatRatio, !.stepScale = s,
                  !.totalScale = targetTotalScale,
                  !.repetitions = find_best_fit_n(work_deltas, s, targetTotalScale,
                                                  work_dur, search_stride),
                  !.message = "Solved Repetitions (Curve)"]
      [] mode = "FitEndAndRatio" ->
           LET n == find_best_fit_n_with_fixed_end(work_deltas, inputBeatEnd,
                                                   targetTotalScale, work_dur,
                                                   search_stride)
               s == IF n > 1 THEN Root(inputBeatEnd, n - 1) ELSE ONE
           IN  [DefaultResult EXCEPT
                  !.beatEnd = inputBeatEnd, !.totalScale = targetTotalScale,
                  !.repetitions = n, !.stepScale = s,
                  !.beatRatio = stepToLoop(s, m_seg_count),
                  !.message = "Solved Repetitions (End+Ratio)"]

\* The verification loop: the sum of the rounded step durations, in ticks.
RECURSIVE QuantizedLoop(_, _, _, _, _, _)
QuantizedLoop(work_deltas, repetitions, stepScale, k, pow_k, quantized_ticks) ==
    IF k >= repetitions THEN quantized_ticks
    ELSE QuantizedLoop(work_deltas, repetitions, stepScale, k + 1,
                       Mul(pow_k, stepScale),
                       quantized_ticks
                         + LLRound(Mul(work_deltas[(k % Len(work_deltas)) + 1], pow_k)))

\* A variant that starts the sum at the second step.
QuantizedTicksFromSecondStep(work_deltas, repetitions, stepScale) ==
    QuantizedLoop(work_deltas, repetitions, stepScale, 1, stepScale, 0)

\* A variant that truncates each step's duration where the code rounds it.
RECURSIVE TruncatedLoop(_, _, _, _, _, _)
TruncatedLoop(work_deltas, repetitions, stepScale, k, pow_k, quantized_ticks) ==
    IF k >= repetitions THEN quantized_ticks
    ELSE TruncatedLoop(work_deltas, repetitions, stepScale, k + 1,
                       Mul(pow_k, stepScale),
                       quantized_ticks
                         + Mul(work_deltas[(k % Len(work_deltas)) + 1], pow_k) \div TickScale)

QuantizedTicksTruncated(work_deltas, repetitions, stepScale) ==
    TruncatedLoop(work_deltas, repetitions, stepScale, 0, ONE, 0)

QuantizedTicks(work_deltas, repetitions, stepScale) ==
    QuantizedLoop(work_deltas, repetitions, stepScale, 0, ONE, 0)

SafePpq(ppq) == IF ppq > 0 THEN ppq ELSE DefaultPpq

MsPerTick(bpm, ppq) == Div(MsPerMinute * TickScale, SatTimes(bpm, SafePpq(ppq)))

\* The inferred stats and the verification of a solved result.
Verify(mode, r, work_deltas, work_dur, bpm, ppq) ==
    LET quantized_ticks == QuantizedTicks(work_deltas, r.repetitions, r.stepScale) * TickScale
        ideal_ticks == Mul(work_dur, r.totalScale)
        errorTicks == Abs(quantized_ticks - ideal_ticks)
    IN  [r EXCEPT
           !.beatEnd = IF mode /= "FitEndAndRatio" /\ r.repetitions > 0
                       THEN Pow(r.stepScale, r.repetitions - 1) ELSE @,
           !.success = TRUE,
           !.realizedScale = Div(quantized_ticks, work_dur),
           !.errorTicks = errorTicks,
           !.errorMs = Mul(errorTicks, MsPerTick(bpm, ppq))]

solve(mode, targetReps, inputBeatRatio, targetTotalScale, inputBeatEnd, deltas, sourceDur, bpm, ppq, constrainToIntegerReps) ==
    LET work_deltas == WorkDeltas(deltas)
        work_dur == WorkDur(deltas, sourceDur)
        m_seg_count == SegCount(deltas)
        search_stride == SearchStride(deltas, constrainToIntegerReps)
    IN  IF ~RepsOk(mode, targetReps) THEN Failed("Invalid Repetitions")
        ELSE IF ~ModeInputsOk(mode, inputBeatRatio, targetTotalScale, inputBeatEnd)
        THEN Failed(ModeFailureMessage(mode))
        ELSE Verify(mode,
                    SolveMode(mode, targetReps, inputBeatRatio, targetTotalScale,
                              inputBeatEnd, work_deltas, work_dur, m_seg_count,
                              search_stride, constrainToIntegerReps),
                    work_deltas, work_dur, bpm, ppq)

\* What solve worked on (the deltas, duration and segment count after the
\* empty-model fallback) and what it divided by on the way to the result r
\* (nothing when it fails validation): the segment count, the search stride,
\* the source duration, N - 1 where the step multiplier is derived from the
\* terminal multiplier (from start - 1 up in the scan of FitEndAndRatio), and
\* bpm * ppq.
SolveWork(mode, inputBeatEnd, deltas, sourceDur, bpm, ppq, constrainToIntegerReps, r) ==
    [deltas |-> WorkDeltas(deltas),
     dur |-> WorkDur(deltas, sourceDur),
     segs |-> SegCount(deltas),
     by |-> IF ~r.success THEN {}
            ELSE {SegCount(deltas), SearchStride(deltas, constrainToIntegerReps),
                  WorkDur(deltas, sourceDur), SatTimes(bpm, SafePpq(ppq))}
                 \cup (IF mode \in {"MatchBeatEnd", "FitEndAndRatio"}
                          /\ r.repetitions > 1
                       THEN {r.repetitions - 1} ELSE {})
                 \cup (IF mode = "FitEndAndRatio"
                          /\ ~BelowInv(inputBeatEnd - ONE, LinearTolInv)
                       THEN {Max(SearchStride(deltas, constrainToIntegerReps), 2) - 1}
                       ELSE {})]

NoWork == [deltas |-> << >>, dur |-> 0, segs |-> 0, by |-> {}]

-----------------------------------------------------------------------------
(* MidiGridModel.cpp.  A MIDI message is [time, kind, data]: time in        *)
(* thousandths of a tick, data the microseconds per quarter note of a tempo *)
(* event and the note or controller number of the others.                  *)

DefaultBpm == 120
GridTolInv == 1000
FarTol == 1
UsPerMinute == 60000000
NoTimeFormat == -6360

IsEndOfTrack(msg) == msg.kind = "endOfTrack"

\* juce::MidiFile as default-constructed: no tracks, an SMPTE time format.
EmptyMidi == [timeFormat |-> NoTimeFormat, tracks |-> << >>]

\* MidiGridModel as default-constructed.
InitialModel ==
    [hasLoaded |-> FALSE, sourceMidi |-> EmptyMidi, midiFormat |-> 1,
     initialBpm |-> DefaultBpm * TickScale, totalDurationTicks |-> 0,
     timePoints |-> << >>, segmentDeltas |-> << >>, eventSegments |-> << >>]

\* A variant of clear that leaves the grid of the last source in place.
clearKeepingGrid(m) ==
    [m EXCEPT !.sourceMidi = [@ EXCEPT !.tracks = << >>],
              !.eventSegments = << >>, !.totalDurationTicks = 0,
              !.initialBpm = DefaultBpm * TickScale, !.hasLoaded = FALSE,
              !.midiFormat = 1]

\* juce::MidiFile::clear drops the tracks and keeps the time format.
clear(m) ==
    [m EXCEPT !.sourceMidi = [@ EXCEPT !.tracks = << >>],
              !.segmentDeltas = << >>, !.timePoints = << >>,
              !.eventSegments = << >>, !.totalDurationTicks = 0,
              !.initialBpm = DefaultBpm * TickScale, !.hasLoaded = FALSE,
              !.midiFormat = 1]

\* The events of a sequence followed by e, in time order, e after its equals
\* (MidiMessageSequence::addEvent, and its stable sort).
RECURSIVE InsertByTime(_, _)
InsertByTime(sorted, e) ==
    IF sorted = << >> THEN << e >>
    ELSE IF sorted[Len(sorted)].time <= e.time THEN Append(sorted, e)
    ELSE Append(InsertByTime(SubSeq(sorted, 1, Len(sorted) - 1), e),
                sorted[Len(sorted)])

RECURSIVE AddSequence(_, _)
AddSequence(merged, track) ==
    IF track = << >> THEN merged
    ELSE AddSequence(InsertByTime(merged, Head(track)), Tail(track))

RECURSIVE MergeTracks(_, _)
MergeTracks(merged, tracks) ==
    IF tracks = << >> THEN merged
    ELSE MergeTracks(AddSequence(merged, Head(tracks)), Tail(tracks))

\* All tracks merged, the end-of-track markers dropped, sorted.
Merged(tracks) ==
    SelectSeq(MergeTracks(<< >>, tracks), LAMBDA e : ~IsEndOfTrack(e))

\* 1. Detect BPM: the first tempo event decides, and sets it when its
\* seconds per quarter note are positive.
RECURSIVE DetectBpm(_)
DetectBpm(merged) ==
    IF merged = << >> THEN DefaultBpm * TickScale
    ELSE IF Head(merged).kind = "tempo"
    THEN (IF Head(merged).data > 0
          THEN LongDiv(UsPerMinute, Head(merged).data, TickScale, 3)
          ELSE DefaultBpm * TickScale)
    ELSE DetectBpm(Tail(merged))

\* 2. Build the grid points.
RECURSIVE BuildGrid(_, _, _)
BuildGrid(merged, points, lastT) ==
    IF merged = << >> THEN points
    ELSE IF Head(merged).time > lastT + TickScale \div GridTolInv
    THEN BuildGrid(Tail(merged), Append(points, Head(merged).time), Head(merged).time)
    ELSE BuildGrid(Tail(merged), points, lastT)

\* 3. Calculate the deltas.
GridDeltasNoFallback(points) ==
    [i \in 1..(Len(points) - 1) |-> points[i + 1] - points[i]]

GridDeltas(points) ==
    IF Len(points) < 2 THEN << FallbackDelta * TickScale >>
    ELSE [i \in 1..(Len(points) - 1) |-> points[i + 1] - points[i]]

analyzeTimeline(m) ==
    LET merged == Merged(m.sourceMidi.tracks)
        points == BuildGrid(merged, << 0 >>, 0)
    IN  [m EXCEPT !.initialBpm = DetectBpm(merged),
                  !.timePoints = points,
                  !.segmentDeltas = GridDeltas(points),
                  !.totalDurationTicks = SumSeq(GridDeltas(points))]

\* The index (from 0) of the grid line nearest to tStamp, the first of equals,
\* and its distance.
RECURSIVE Nearest(_, _, _, _, _)
Nearest(tStamp, points, i, bestIdx, minDiff) ==
    IF i >= Len(points) THEN [idx |-> bestIdx, diff |-> minDiff]
    ELSE IF Abs(tStamp - points[i + 1]) < minDiff
    THEN Nearest(tStamp, points, i + 1, i, Abs(tStamp - points[i + 1]))
    ELSE Nearest(tStamp, points, i + 1, bestIdx, minDiff)

\* As BucketOf, with the final grid line wrapped onto line 0.
BucketOfWrapping(tStamp, points, totalDuration) ==
    LET n == Nearest(tStamp, points, 0, -1, DoubleMax)
    IN  IF Len(points) > 1 THEN n.idx % (Len(points) - 1) ELSE n.idx

BucketOf(tStamp, points, totalDuration) ==
    LET n == Nearest(tStamp, points, 0, -1, DoubleMax)
    IN  IF n.diff > FarTol * TickScale /\ tStamp >= totalDuration
        THEN Len(points) - 1 ELSE n.idx

\* The events of track t (from index i on) put into their buckets.
RECURSIVE SegmentTrack(_, _, _, _, _, _)
SegmentTrack(segments, t, track, i, points, totalDuration) ==
    IF i > Len(track) THEN segments
    ELSE IF IsEndOfTrack(track[i])
    THEN SegmentTrack(segments, t, track, i + 1, points, totalDuration)
    ELSE LET bestIdx == BucketOf(track[i].time, points, totalDuration)
             clone == [sourceTrackIndex |-> t,
                       message |-> [track[i] EXCEPT
                                      !.time = track[i].time - points[bestIdx + 1]]]
         IN  SegmentTrack(IF bestIdx >= 0
                          THEN [segments EXCEPT ![bestIdx + 1] = Append(@, clone)]
                          ELSE segments,
                          t, track, i + 1, points, totalDuration)

RECURSIVE SegmentTracks(_, _, _, _, _)
SegmentTracks(segments, tracks, t, points, totalDuration) ==
    IF t >= Len(tracks) THEN segments
    ELSE SegmentTracks(SegmentTrack(segments, t, tracks[t + 1], 1, points, totalDuration),
                       tracks, t + 1, points, totalDuration)

segmentEvents(m) ==
    [m EXCEPT !.eventSegments =
        SegmentTracks([i \in 1..(Len(m.timePoints) + 1) |-> << >>],
                      m.sourceMidi.tracks, 0, m.timePoints, m.totalDurationTicks)]

\* juce::MidiFile::readFrom on a stream that opened: it clears the file, and
\* takes the time format, the tracks and the format of a file it can parse.
ReadFrom(m, file) ==
    IF file.valid
    THEN [m EXCEPT !.sourceMidi = [timeFormat |-> file.timeFormat,
                                   tracks |-> file.tracks],
                   !.midiFormat = file.format]
    ELSE m

\* MidiGridModel::load: the model it leaves and the Result it returns.
load(m, file) ==
    LET cleared == clear(m)
        read == ReadFrom(cleared, file)
    IN  IF ~file.exists
        THEN [model |-> cleared, message |-> "File not found"]
        ELSE IF ~file.opens
        THEN [model |-> cleared, message |-> "Could not open file stream."]
        ELSE IF ~file.valid
        THEN [model |-> read, message |-> "Corrupt or invalid MIDI file."]
        ELSE IF Len(read.sourceMidi.tracks) = 0
        THEN [model |-> read, message |-> "MIDI file contains no tracks."]
        ELSE [model |-> segmentEvents(analyzeTimeline([read EXCEPT !.hasLoaded = TRUE])),
              message |-> "ok"]

-----------------------------------------------------------------------------
(* MidiTransformEngine.cpp.                                                *)

getPPQ(m) == m.sourceMidi.timeFormat

\* MidiTransformEngine::runSolver: solve on what the model holds, loaded or not.
runSolver(m, mode, reps, s, R, endScale, constrainToIntegerReps) ==
    solve(mode, reps, s, R, endScale, m.segmentDeltas, m.totalDurationTicks,
          m.initialBpm, IF getPPQ(m) > 0 THEN getPPQ(m) ELSE DefaultPpq,
          constrainToIntegerReps)


getNumTracks(m) == Len(m.sourceMidi.tracks)

SortTolInv == 1000000
TimeSigBeats == 4

\* A buffered event of a track stream: the unrounded absolute time, and the
\* message.
TimeEvent(first, second) == [first |-> first, second |-> second]

IsMetaEvent(msg) == msg.kind \in {"tempo", "timeSignature", "endOfTrack"}

getPriority(msg) ==
    IF IsEndOfTrack(msg) THEN 4
    ELSE IF IsMetaEvent(msg) THEN 0
    ELSE IF msg.kind = "noteOff" THEN 1
    ELSE IF msg.kind = "noteOn" THEN 2
    ELSE 3

\* The comparator of the sort: by time unless the times are within 1e-6 of
\* each other, then by priority.
EventBefore(a, b) ==
    IF Abs(a.first - b.first) > TickScale \div SortTolInv
    THEN a.first < b.first
    ELSE getPriority(a.second) < getPriority(b.second)

\* std::stable_sort: each event goes behind those it is not before.
RECURSIVE StableInsert(_, _)
StableInsert(sorted, e) ==
    IF sorted = << >> THEN << e >>
    ELSE IF ~EventBefore(e, sorted[Len(sorted)]) THEN Append(sorted, e)
    ELSE Append(StableInsert(SubSeq(sorted, 1, Len(sorted) - 1), e),
                sorted[Len(sorted)])

RECURSIVE StableSort(_, _)
StableSort(sorted, stream) ==
    IF stream = << >> THEN sorted
    ELSE StableSort(StableInsert(sorted, Head(stream)), Tail(stream))

\* grooveOffset * pow(s, k), for an offset of either sign.
ScaledOffset(grooveOffset, pow_k) ==
    IF grooveOffset < 0 THEN 0 - Mul(0 - grooveOffset, pow_k) ELSE Mul(grooveOffset, pow_k)

\* The events of one bucket (from index i on) pushed on their tracks' streams.
RECURSIVE PushEvents(_, _, _, _, _, _)
PushEvents(trackStreams, bucket, i, baseTime, pow_k, numTracks) ==
    IF i > Len(bucket) THEN trackStreams
    ELSE LET ev == bucket[i]
             t == ev.sourceTrackIndex
             te == TimeEvent(baseTime + ScaledOffset(ev.message.time, pow_k), ev.message)
         IN  PushEvents(IF t >= 0 /\ t < numTracks
                        THEN [trackStreams EXCEPT ![t + 1] = Append(@, te)]
                        ELSE trackStreams,
                        bucket, i + 1, baseTime, pow_k, numTracks)

addScaledEvents(trackStreams, segments, bucketIdx, baseTime, pow_k, numTracks) ==
    IF bucketIdx >= Len(segments) THEN trackStreams
    ELSE PushEvents(trackStreams, segments[bucketIdx + 1], 1, baseTime, pow_k, numTracks)

\* The buckets step k injects, in order: the next one, or at the end of the
\* pattern the terminal one and, unless this is the last step, bucket 0.
StepBucketsAlwaysWrapping(k, totalSteps, segmentCount, numSegments) ==
    IF (k % segmentCount) + 1 = segmentCount
    THEN (IF segmentCount < numSegments THEN << segmentCount >> ELSE << >>) \o << 0 >>
    ELSE << (k % segmentCount) + 1 >>

StepBuckets(k, totalSteps, segmentCount, numSegments) ==
    IF (k % segmentCount) + 1 = segmentCount
    THEN (IF segmentCount < numSegments THEN << segmentCount >> ELSE << >>)
            \o (IF k < totalSteps - 1 THEN << 0 >> ELSE << >>)
    ELSE << (k % segmentCount) + 1 >>

RECURSIVE AddBuckets(_, _, _, _, _, _)
AddBuckets(trackStreams, segments, buckets, baseTime, pow_k, numTracks) ==
    IF buckets = << >> THEN trackStreams
    ELSE AddBuckets(addScaledEvents(trackStreams, segments, Head(buckets), baseTime,
                                    pow_k, numTracks),
                    segments, Tail(buckets), baseTime, pow_k, numTracks)

\* As GenerateSteps, with the events of a step placed at the time the step
\* starts.
RECURSIVE GenerateStepsFromCursor(_, _, _, _, _, _)
GenerateStepsFromCursor(trackStreams, m, totalSteps, s, k, currentAbsTime) ==
    IF k >= totalSteps
    THEN [trackStreams |-> trackStreams, currentAbsTime |-> currentAbsTime]
    ELSE LET segmentCount == Len(m.segmentDeltas)
             t2 == SatAdd(currentAbsTime,
                          Mul(m.segmentDeltas[(k % segmentCount) + 1], Pow(s, k)))
         IN  GenerateStepsFromCursor(
                 AddBuckets(trackStreams, m.eventSegments,
                            StepBuckets(k, totalSteps, segmentCount, Len(m.eventSegments)),
                            currentAbsTime, Pow(s, k), getNumTracks(m)),
                 m, totalSteps, s, k + 1, t2)

\* 3. Iterative generation, from step k on: the streams and the end time.
RECURSIVE GenerateSteps(_, _, _, _, _, _)
GenerateSteps(trackStreams, m, totalSteps, s, k, currentAbsTime) ==
    IF k >= totalSteps
    THEN [trackStreams |-> trackStreams, currentAbsTime |-> currentAbsTime]
    ELSE LET segmentCount == Len(m.segmentDeltas)
             t2 == SatAdd(currentAbsTime,
                          Mul(m.segmentDeltas[(k % segmentCount) + 1], Pow(s, k)))
         IN  GenerateSteps(
                 AddBuckets(trackStreams, m.eventSegments,
                            StepBuckets(k, totalSteps, segmentCount, Len(m.eventSegments)),
                            t2, Pow(s, k), getNumTracks(m)),
                 m, totalSteps, s, k + 1, t2)

\* 1. The metadata on track 0, and 2. the events of bucket 0.
InitialStreams(m) ==
    LET numTracks == getNumTracks(m)
        empty == [t \in 1..numTracks |-> << >>]
        uspq == LongDiv(UsPerMinute, m.initialBpm, TickScale, 3)
        meta == IF numTracks > 0
                THEN [empty EXCEPT ![1] =
                        << TimeEvent(0, [time |-> 0, kind |-> "tempo", data |-> uspq]),
                           TimeEvent(0, [time |-> 0, kind |-> "timeSignature",
                                         data |-> TimeSigBeats]) >>]
                ELSE empty
    IN  IF m.eventSegments /= << >>
        THEN PushEvents(meta, m.eventSegments[1], 1, 0, ONE, numTracks)
        ELSE meta

\* The events of a sorted stream, stamped with their rounded times and added
\* to a sequence.
RECURSIVE ToSequence(_, _)
ToSequence(seq, stream) ==
    IF stream = << >> THEN seq
    ELSE ToSequence(InsertByTime(seq, [Head(stream).second EXCEPT
                                          !.time = LLRound(Head(stream).first) * TickScale]),
                    Tail(stream))

\* 4. One finished track.
FinalizeTrack(stream, currentAbsTime) ==
    ToSequence(<< >>,
               StableSort(<< >>,
                          Append(stream,
                                 TimeEvent(currentAbsTime,
                                           [time |-> 0, kind |-> "endOfTrack", data |-> 0]))))

\* What generateOutput answers before it generates anything.
GenerateGuardSegmentsOnly(m) ==
    IF Len(m.segmentDeltas) = 0 THEN "Model is empty (no time segments)."
    ELSE "ok"

GenerateGuard(m) ==
    IF ~m.hasLoaded THEN "No source MIDI loaded."
    ELSE IF Len(m.segmentDeltas) = 0 THEN "Model is empty (no time segments)."
    ELSE "ok"

\* MidiTransformEngine::generateOutput: the file and the flag it leaves, and
\* the Result it returns.
generateOutput(m, generated, generatedFlag, totalSteps, s) ==
    LET ppq == IF getPPQ(m) > 0 THEN getPPQ(m) ELSE DefaultPpq
        done == GenerateSteps(InitialStreams(m), m, totalSteps, s, 0, 0)
    IN  IF GenerateGuard(m) = "No source MIDI loaded."
        THEN [generatedMidi |-> generated, isGenerated |-> generatedFlag,
              message |-> GenerateGuard(m)]
        ELSE IF GenerateGuard(m) /= "ok"
        THEN [generatedMidi |-> [timeFormat |-> ppq, tracks |-> << >>],
              isGenerated |-> generatedFlag, message |-> GenerateGuard(m)]
        ELSE [generatedMidi |->
                 [timeFormat |-> ppq,
                  tracks |-> [t \in 1..getNumTracks(m) |->
                                FinalizeTrack(done.trackStreams[t], done.currentAbsTime)]],
              isGenerated |-> TRUE, message |-> "ok"]

-----------------------------------------------------------------------------
(* The inputs.                                                             *)

MaxLoops == 2
MaxN == 5

Msg(ticks, kind, data) == [time |-> ticks * TickScale, kind |-> kind, data |-> data]

File(exists, opens, valid, timeFormat, tracks) ==
    [exists |-> exists, opens |-> opens, valid |-> valid, format |-> 1,
     timeFormat |-> timeFormat, tracks |-> tracks]

\* No file at all (what EJECT loads), a file that cannot be opened, one that
\* is not MIDI, and one with a header and no tracks.
MissingFile == File(FALSE, FALSE, FALSE, 0, << >>)
LockedFile == File(TRUE, FALSE, FALSE, 0, << >>)
CorruptFile == File(TRUE, TRUE, FALSE, 0, << >>)
NoTrackFile == File(TRUE, TRUE, TRUE, 480, << >>)

\* Sources with no event off tick 0: nothing but the end marker, and one note
\* that starts at 0 in an SMPTE-timed file.
EmptyTrackFile == File(TRUE, TRUE, TRUE, 960, << << Msg(0, "endOfTrack", 0) >> >>)
OneShotFile ==
    File(TRUE, TRUE, TRUE, NoTimeFormat,
         << << Msg(0, "tempo", 500000), Msg(0, "noteOn", 60),
               Msg(0, "endOfTrack", 0) >> >>)

\* Two beats of 480 ticks; 100 and 900 ticks on a second track under a tempo of
\* 60 bpm; three segments under a tempo event of 0 microseconds.
TwoBeatFile ==
    File(TRUE, TRUE, TRUE, 960,
         << << Msg(0, "noteOn", 60), Msg(480, "noteOff", 60),
               Msg(480, "noteOn", 62), Msg(960, "noteOff", 62),
               Msg(960, "endOfTrack", 0) >> >>)
UnevenFile ==
    File(TRUE, TRUE, TRUE, 480,
         << << Msg(0, "tempo", 1000000), Msg(0, "endOfTrack", 0) >>,
            << Msg(0, "noteOn", 60), Msg(100, "noteOff", 60),
               Msg(100, "noteOn", 62), Msg(1000, "noteOff", 62),
               Msg(1000, "endOfTrack", 0) >> >>)
ThreeFile ==
    File(TRUE, TRUE, TRUE, 960,
         << << Msg(0, "tempo", 0), Msg(0, "noteOn", 60),
               Msg(240, "controller", 7), Msg(720, "noteOff", 60),
               Msg(960, "controller", 7), Msg(960, "endOfTrack", 0) >> >>)

\* Two notes that overlap by one tick: grid lines at 0, 10 and 11.
GraceFile ==
    File(TRUE, TRUE, TRUE, 960,
         << << Msg(0, "noteOn", 60), Msg(10, "noteOn", 62),
               Msg(11, "noteOff", 60), Msg(11, "noteOff", 62),
               Msg(11, "endOfTrack", 0) >> >>)

FailingFiles == {MissingFile, LockedFile, CorruptFile, NoTrackFile}
Files == FailingFiles \cup {EmptyTrackFile, OneShotFile, TwoBeatFile, UnevenFile, ThreeFile}

\* Segment durations, in thousandths of a tick.
DeltaSets ==
    { << 960000 >>, << 480000, 480000 >>, << 100000, 900000 >>,
      << 240000, 480000, 240000 >> }

LoopCounts ==
    {-ONE, 0, ONE \div 5, ONE \div 2, (3 * ONE) \div 2} \cup {k * ONE : k \in 1..MaxLoops}

LoopMultipliers == {0, ONE \div 2, ONE, 1000500, 1210000, 2 * ONE}

Ratios == {-ONE, 0, (2 * ONE) \div 5, ONE, 2 * ONE, 2320500, 3 * ONE}

Ends == {0, ONE \div 2, ONE, 2 * ONE}

StepMultipliers == {ONE \div 2, 999999, ONE, 1000500, 1100000, 2 * ONE}

\* The ratios a step count is searched for: those above, one half way between
\* two candidates and, for the linear edge case, one beyond the scan limit.
ScanRatios == Ratios \cup {(3 * ONE) \div 2}

LargeRatios == {600 * ONE}

\* What the engine is asked to generate from: sources that fail to load, a
\* degenerate one, two tracks, and the short note; step counts up to MaxSteps;
\* a shrinking, the linear and a growing multiplier.
MaxSteps == 6

GenFiles == {MissingFile, NoTrackFile, OneShotFile, UnevenFile, ThreeFile, GraceFile}

StepCounts == 0..MaxSteps

GenMultipliers == {(3 * ONE) \div 10, ONE, 2 * ONE}

Inputs(mode, targetReps, inputBeatRatio, targetTotalScale, inputBeatEnd, constrain) ==
    [mode |-> mode, targetReps |-> targetReps, inputBeatRatio |-> inputBeatRatio,
     targetTotalScale |-> targetTotalScale, inputBeatEnd |-> inputBeatEnd,
     constrainToIntegerReps |-> constrain]

\* A multiplier below 1 is paired with the ratios its series reaches.
CurvePairs ==
    {p \in LoopMultipliers \X Ratios : p[1] <= 0 \/ p[1] >= ONE \/ p[2] <= ONE}

SolveInputs ==
    {Inputs("TargetTotalScale", n, ONE, r, ONE, c) :
        n \in LoopCounts, r \in Ratios, c \in BOOLEAN}
    \cup {Inputs("FixedBeatRatio", n, s, ONE, ONE, c) :
        n \in LoopCounts, s \in LoopMultipliers, c \in BOOLEAN}
    \cup {Inputs("MatchBeatEnd", n, ONE, ONE, e, c) :
        n \in LoopCounts, e \in Ends, c \in BOOLEAN}
    \cup {Inputs("FitToCurve", n, p[1], p[2], ONE, c) :
        n \in {-ONE, 0, ONE}, p \in CurvePairs, c \in BOOLEAN}
    \cup {Inputs("FitEndAndRatio", n, ONE, r, e, c) :
        n \in {-ONE, 0, ONE}, r \in Ratios, e \in Ends, c \in BOOLEAN}

\* What the engine is asked to solve: per mode, no loops or two, with one
\* value of each input the mode reads (two terminal multipliers where the step
\* count is searched for one).
EngineInputs ==
    {i \in SolveInputs :
        /\ i.targetReps \in {0, 2 * ONE}
        /\ i.targetTotalScale \in {ONE, 2320500}
        /\ i.inputBeatRatio \in {ONE, 1210000}
        /\ i.inputBeatEnd \in {ONE, 2 * ONE}
        /\ i.mode = "TargetTotalScale" => i.targetTotalScale = 2320500
        /\ i.mode = "FixedBeatRatio" => i.inputBeatRatio = 1210000
        /\ i.mode = "MatchBeatEnd" => i.inputBeatEnd = 2 * ONE
        /\ i.mode = "FitToCurve" =>
             i.inputBeatRatio = 1210000 /\ i.targetTotalScale = 2320500
        /\ i.mode = "FitEndAndRatio" => i.targetTotalScale = 2320500}

Idle == [op |-> "idle"]

-----------------------------------------------------------------------------
(* The engine: one MidiTransformEngine, and the calls made on it.          *)

Init ==
    /\ model = InitialModel
    /\ isGenerated = FALSE
    /\ generatedMidi = EmptyMidi
    /\ loadResult = [message |-> "none", replaced |-> FALSE]
    /\ call = Idle
    /\ res = DefaultResult
    /\ divisors = NoWork
    /\ generateButton = FALSE
    /\ saveButton = FALSE

\* MidiTransformEngine::loadSource.
LoadSource(file) ==
    /\ isGenerated' = FALSE
    /\ generatedMidi' = generatedMidi
    /\ model' = load(model, file).model
    /\ loadResult' = [message |-> load(model, file).message,
                      replaced |-> model.hasLoaded]
    /\ call' = [op |-> "loadSource"]
    /\ res' = DefaultResult
    /\ divisors' = NoWork
    /\ UNCHANGED << generateButton, saveButton >>

\* MidiTransformEngine::runSolver.
RunSolver(i) ==
    LET r == runSolver(model, i.mode, i.targetReps, i.inputBeatRatio,
                       i.targetTotalScale, i.inputBeatEnd, i.constrainToIntegerReps)
    IN  /\ res' = r
        /\ divisors' = SolveWork(i.mode, i.inputBeatEnd, model.segmentDeltas,
                                 model.totalDurationTicks, model.initialBpm,
                                 IF getPPQ(model) > 0 THEN getPPQ(model) ELSE DefaultPpq,
                                 i.constrainToIntegerReps, r)
        /\ call' = [op |-> "runSolver", in |-> i]
        /\ UNCHANGED << model, isGenerated, generatedMidi, loadResult,
                     generateButton, saveButton >>

Next ==
    \/ \E file \in Files : LoadSource(file)
    \/ \E i \in EngineInputs : RunSolver(i)

Spec == Init /\ [][Next]_vars

\* MidiTransformEngine::generateOutput.
GenerateOutput(totalSteps, s) ==
    LET g == generateOutput(model, generatedMidi, isGenerated, totalSteps, s)
    IN  /\ generatedMidi' = g.generatedMidi
        /\ isGenerated' = g.isGenerated
        /\ call' = [op |-> "generateOutput", totalSteps |-> totalSteps, s |-> s,
                    message |-> g.message]
        /\ res' = DefaultResult
        /\ divisors' = NoWork
        /\ UNCHANGED << model, loadResult, generateButton, saveButton >>

\* Loading and generating, in any order.
GenerateNext ==
    \/ \E file \in GenFiles : LoadSource(file)
    \/ \E totalSteps \in StepCounts, s \in GenMultipliers : GenerateOutput(totalSteps, s)

GenerateSpec == Init /\ [][GenerateNext]_vars

\* A destination of saveFile: whether a file is there and can be deleted,
\* whether the output stream opens, and whether the write goes through.
Dest(exists, deletable, opens, writes) ==
    [exists |-> exists, deletable |-> deletable, opens |-> opens, writes |-> writes]

NewDest == Dest(FALSE, TRUE, TRUE, TRUE)
ExistingDest == Dest(TRUE, TRUE, TRUE, TRUE)
LockedDest == Dest(TRUE, FALSE, TRUE, TRUE)
ReadOnlyDest == Dest(FALSE, TRUE, FALSE, TRUE)
FullDest == Dest(FALSE, TRUE, TRUE, FALSE)

Dests == {NewDest, ExistingDest, LockedDest, ReadOnlyDest, FullDest}

\* As saveFile, without the check of the flag.
saveFileUnguarded(generatedFlag, generated, dest) ==
    [message |-> IF dest.exists /\ ~dest.deletable
                 THEN "Could not overwrite existing file (locked?)."
                 ELSE IF ~dest.opens THEN "Could not write to disk."
                 ELSE IF ~dest.writes THEN "Internal write error."
                 ELSE "ok",
     format |-> IF Len(generated.tracks) > 1 THEN 1 ELSE 0]

\* MidiTransformEngine::saveFile: the Result it returns, and the format it
\* writes the file in.
saveFile(generatedFlag, generated, dest) ==
    [message |-> IF ~generatedFlag THEN "Nothing to save."
                 ELSE IF dest.exists /\ ~dest.deletable
                 THEN "Could not overwrite existing file (locked?)."
                 ELSE IF ~dest.opens THEN "Could not write to disk."
                 ELSE IF ~dest.writes THEN "Internal write error."
                 ELSE "ok",
     format |-> IF Len(generated.tracks) > 1 THEN 1 ELSE 0]

SaveFile(dest) ==
    /\ call' = [op |-> "saveFile", dest |-> dest,
                message |-> saveFile(isGenerated, generatedMidi, dest).message,
                format |-> saveFile(isGenerated, generatedMidi, dest).format]
    /\ res' = DefaultResult
    /\ divisors' = NoWork
    /\ UNCHANGED << model, isGenerated, generatedMidi, loadResult,
                    generateButton, saveButton >>

\* The four calls of the engine, in any order, on few inputs: two sources
\* that fail to load and two that load, a solve that fails and solves of two
\* modes, no step and one loop of two segments.
SessionFiles == {MissingFile, CorruptFile, OneShotFile, UnevenFile}

SessionInputs ==
    {i \in EngineInputs :
        /\ i.mode \in {"TargetTotalScale", "FixedBeatRatio"}
        /\ i.constrainToIntegerReps}

SessionSteps == {0, 2}

SessionNext ==
    \/ \E file \in SessionFiles : LoadSource(file)
    \/ \E i \in SessionInputs : RunSolver(i)
    \/ \E totalSteps \in SessionSteps : GenerateOutput(totalSteps, ONE)
    \/ \E dest \in Dests : SaveFile(dest)

SessionSpec == Init /\ [][SessionNext]_vars

-----------------------------------------------------------------------------
(* MainComponent.cpp: the window, its engine and its two footer buttons.   *)
(* The text fields hold whatever the user typed when a button is clicked:  *)
(* the inputs of a click are drawn from UiInputs.  A disabled button is    *)
(* not clicked.                                                            *)

\* What is dropped on the window, and what the fields hold.
UiFiles == {CorruptFile, GraceFile, UnevenFile}

UiInputs == SessionInputs

\* MainComponent::loadFile, from the file chooser or a drop.
LoadFile(file) ==
    LET l == load(model, file)
    IN  /\ isGenerated' = FALSE
        /\ model' = l.model
        /\ loadResult' = [message |-> l.message, replaced |-> model.hasLoaded]
        /\ generateButton' = (IF l.message = "ok" THEN FALSE ELSE generateButton)
        /\ saveButton' = (IF l.message = "ok" THEN FALSE ELSE saveButton)
        /\ call' = [op |-> "loadFile"]
        /\ res' = DefaultResult
        /\ divisors' = NoWork
        /\ UNCHANGED generatedMidi

\* ejectButton.onClick: loadSource of juce::File().
Eject ==
    /\ isGenerated' = FALSE
    /\ model' = load(model, MissingFile).model
    /\ loadResult' = [message |-> load(model, MissingFile).message,
                      replaced |-> model.hasLoaded]
    /\ call' = [op |-> "eject"]
    /\ res' = DefaultResult
    /\ divisors' = NoWork
    /\ UNCHANGED << generatedMidi, generateButton, saveButton >>

\* MainComponent::runSolver, the click on SOLVE.
MainRunSolver(i) ==
    LET r == runSolver(model, i.mode, i.targetReps, i.inputBeatRatio,
                       i.targetTotalScale, i.inputBeatEnd, i.constrainToIntegerReps)
    IN  /\ call' = [op |-> "solveClick", in |-> i]
        /\ IF ~model.hasLoaded
           THEN /\ res' = DefaultResult
                /\ divisors' = NoWork
                /\ UNCHANGED generateButton
           ELSE /\ res' = r
                /\ divisors' = SolveWork(i.mode, i.inputBeatEnd, model.segmentDeltas,
                                         model.totalDurationTicks, model.initialBpm,
                                         IF getPPQ(model) > 0 THEN getPPQ(model)
                                         ELSE DefaultPpq,
                                         i.constrainToIntegerReps, r)
                /\ generateButton' = (r.success \/ generateButton)
        /\ UNCHANGED << model, isGenerated, generatedMidi, loadResult, saveButton >>

\* MainComponent::generate, the click on GENERATE: it solves again, and
\* generates from the step count and the step multiplier of the result.
MainGenerate(i) ==
    LET r == runSolver(model, i.mode, i.targetReps, i.inputBeatRatio,
                       i.targetTotalScale, i.inputBeatEnd, i.constrainToIntegerReps)
        g == generateOutput(model, generatedMidi, isGenerated, r.repetitions, r.stepScale)
    IN  /\ generateButton
        /\ res' = r
        /\ divisors' = SolveWork(i.mode, i.inputBeatEnd, model.segmentDeltas,
                                 model.totalDurationTicks, model.initialBpm,
                                 IF getPPQ(model) > 0 THEN getPPQ(model) ELSE DefaultPpq,
                                 i.constrainToIntegerReps, r)
        /\ generatedMidi' = (IF r.success THEN g.generatedMidi ELSE generatedMidi)
        /\ isGenerated' = (IF r.success THEN g.isGenerated ELSE isGenerated)
        /\ saveButton' = ((r.success /\ g.message = "ok") \/ saveButton)
        /\ call' = [op |-> "generateClick", in |-> i,
                    message |-> IF r.success THEN g.message ELSE "Invalid Parameters."]
        /\ UNCHANGED << model, loadResult, generateButton >>

\* MainComponent::saveFile, the click on SAVE with a destination chosen.
MainSaveFile(dest) ==
    /\ saveButton
    /\ call' = [op |-> "saveClick", dest |-> dest,
                message |-> saveFile(isGenerated, generatedMidi, dest).message,
                format |-> saveFile(isGenerated, generatedMidi, dest).format]
    /\ res' = DefaultResult
    /\ divisors' = NoWork
    /\ UNCHANGED << model, isGenerated, generatedMidi, loadResult,
                    generateButton, saveButton >>

UiNext ==
    \/ \E file \in UiFiles : LoadFile(file)
    \/ Eject
    \/ \E i \in UiInputs : MainRunSolver(i)
    \/ \E i \in UiInputs : MainGenerate(i)
    \/ \E dest \in Dests : MainSaveFile(dest)

UiSpec == Init /\ [][UiNext]_vars

-----------------------------------------------------------------------------
(* SeriesMath on its own: each helper, and solve, called once on inputs    *)
(* drawn from the sets above; then the caller returns.                     *)

CallEvaluateRatio ==
    /\ call = Idle
    /\ \E deltas \in DeltaSets, n \in 1..MaxN, s \in StepMultipliers :
         call' = [op |-> "evaluateRatio", deltas |-> deltas, n |-> n, s |-> s,
                  sourceDuration |-> SumSeq(deltas),
                  result |-> compute_duration_with_step_s(deltas, n, s, SumSeq(deltas))]
    /\ UNCHANGED << model, isGenerated, generatedMidi, loadResult, res, divisors,
                 generateButton, saveButton >>

\* solveMultiplier, asked for the ratio that the multiplier s0 attains.
CallSolveMultiplier ==
    /\ call = Idle
    /\ \E deltas \in DeltaSets, n \in 1..MaxN, s0 \in StepMultipliers :
         LET targetR == compute_duration_with_step_s(deltas, n, s0, SumSeq(deltas))
         IN  call' = [op |-> "solveMultiplier", deltas |-> deltas, n |-> n,
                      s0 |-> s0, targetR |-> targetR,
                      sourceDuration |-> SumSeq(deltas),
                      result |-> solve_s_step_bisection(deltas, n, targetR, SumSeq(deltas))]
    /\ UNCHANGED << model, isGenerated, generatedMidi, loadResult, res, divisors,
                 generateButton, saveButton >>

CallSolveRepetitionCount ==
    /\ call = Idle
    /\ \E deltas \in DeltaSets, s \in StepMultipliers, targetR \in ScanRatios :
       \E stride \in {1, Len(deltas)} :
         /\ targetR > 0
         /\ (s >= ONE \/ targetR <= (2 * ONE) \div 5)
         /\ call' = [op |-> "solveRepetitionCount", deltas |-> deltas, s |-> s,
                     targetR |-> targetR, stride |-> stride,
                     result |-> find_best_fit_n(deltas, s, targetR, SumSeq(deltas), stride)]
    /\ UNCHANGED << model, isGenerated, generatedMidi, loadResult, res, divisors,
                 generateButton, saveButton >>

CallSolveRepetitionCountWithFixedEnd ==
    /\ call = Idle
    /\ \E deltas \in DeltaSets, targetEnd \in Ends, targetR \in ScanRatios \cup LargeRatios :
       \E stride \in {1, Len(deltas)} :
         /\ targetR > 0
         /\ targetEnd > 0
         /\ targetR \in LargeRatios => targetEnd = ONE
         /\ call' = [op |-> "solveRepetitionCountWithFixedEnd", deltas |-> deltas,
                     targetEnd |-> targetEnd, targetR |-> targetR, stride |-> stride,
                     result |-> find_best_fit_n_with_fixed_end(
                                    deltas, targetEnd, targetR, SumSeq(deltas), stride)]
    /\ UNCHANGED << model, isGenerated, generatedMidi, loadResult, res, divisors,
                 generateButton, saveButton >>

\* solve, on a segmentation or on none (no source loaded).
CallSolve ==
    /\ call = Idle
    /\ \E deltas \in DeltaSets \cup {<< >>}, i \in SolveInputs :
         LET r == solve(i.mode, i.targetReps, i.inputBeatRatio, i.targetTotalScale,
                        i.inputBeatEnd, deltas, SumSeq(deltas),
                        DefaultBpm * TickScale, DefaultPpq, i.constrainToIntegerReps)
         IN  /\ res' = r
             /\ divisors' = SolveWork(i.mode, i.inputBeatEnd, deltas, SumSeq(deltas),
                                      DefaultBpm * TickScale, DefaultPpq,
                                      i.constrainToIntegerReps, r)
             /\ call' = [op |-> "solve", in |-> i, deltas |-> deltas]
    /\ UNCHANGED << model, isGenerated, generatedMidi, loadResult,
                     generateButton, saveButton >>

\* The way back of a round trip: after FixedBeatRatio gave the ratio of a loop
\* multiplier, TargetTotalScale is asked for the multiplier of that ratio,
\* with the same loop count on the same segmentation.
CallSolveBack ==
    /\ call.op = "solve"
    /\ call.in.mode = "FixedBeatRatio"
    /\ res.success
    /\ LET i == call.in
           r == solve("TargetTotalScale", i.targetReps, ONE, res.totalScale, ONE,
                      call.deltas, SumSeq(call.deltas), DefaultBpm * TickScale,
                      DefaultPpq, i.constrainToIntegerReps)
       IN  /\ res' = r
           /\ divisors' = SolveWork("TargetTotalScale", ONE, call.deltas,
                                    SumSeq(call.deltas), DefaultBpm * TickScale,
                                    DefaultPpq, i.constrainToIntegerReps, r)
           /\ call' = [op |-> "solveBack", in |-> i, deltas |-> call.deltas,
                       first |-> res]
    /\ UNCHANGED << model, isGenerated, generatedMidi, loadResult,
                     generateButton, saveButton >>

Return ==
    /\ call /= Idle
    /\ call' = Idle
    /\ res' = DefaultResult
    /\ divisors' = NoWork
    /\ UNCHANGED << model, isGenerated, generatedMidi, loadResult,
                     generateButton, saveButton >>

SolverNext ==
    \/ CallEvaluateRatio
    \/ CallSolveMultiplier
    \/ CallSolveRepetitionCount
    \/ CallSolveRepetitionCountWithFixedEnd
    \/ CallSolve
    \/ CallSolveBack
    \/ Return

SolverSpec == Init /\ [][SolverNext]_vars

-----------------------------------------------------------------------------
(* The claims.                                                             *)

IsCall(op) == call.op = op

SolveSegs == SegCount(call.deltas)

\* C1: solveRepetitionCount and solveRepetitionCountWithFixedEnd return, for
\* non-empty deltas, a stride of 1 or M and positive targets, a step count N
\* with N >= stride and N mod stride = 0, on the targetEnd ~ 1.0 shortcut too.
C1_CountIsPositiveMultipleOfStride ==
    (IsCall("solveRepetitionCount") \/ IsCall("solveRepetitionCountWithFixedEnd"))
        => /\ call.result >= call.stride
           /\ call.result % call.stride = 0

\* The multiple of m nearest to n, the upper one of two equally near.
NearestMultiple(n, m) ==
    CHOOSE x \in {k * m : k \in 0..(n \div m + 1)} :
        \A y \in {k * m : k \in 0..(n \div m + 1)} :
            \/ Abs(x - n) < Abs(y - n)
            \/ (Abs(x - n) = Abs(y - n) /\ x >= y)

\* C2: in TargetTotalScale, FixedBeatRatio and MatchBeatEnd with whole loops
\* only, a successful solve has the step count N that is the multiple of M
\* nearest to round(loops * M), clamped to at least one stride: N >= M and
\* N mod M = 0.
C2_WholeLoopsOnlyGivesWholeLoops ==
    (/\ IsCall("solve")
     /\ call.in.mode \in {"TargetTotalScale", "FixedBeatRatio", "MatchBeatEnd"}
     /\ call.in.constrainToIntegerReps
     /\ res.success)
        => /\ res.repetitions >= SolveSegs
           /\ res.repetitions % SolveSegs = 0
           /\ res.repetitions =
                Max(SolveSegs,
                    NearestMultiple(Round(SatTimes(call.in.targetReps, SolveSegs)),
                                    SolveSegs))

\* C3: the multiplier that solveMultiplier returns for a ratio attained inside
\* the bracket has a residual below 1e-6: |evaluateRatio(deltas, N, s,
\* sum(deltas)) - R| < 1e-6, also where R is within 0.001 of N / M.
C3_MultiplierAttainsTarget ==
    IsCall("solveMultiplier")
        => BelowInv(compute_duration_with_step_s(call.deltas, call.n, call.result,
                                                 call.sourceDuration)
                    - call.targetR,
                    1000000)

\* |a - b| <= 1e-4, for two multipliers.
WithinRoundTripTol(a, b) == Abs(a - b) <= Scale \div 10000

\* C4: the round trip of a multiplier: the ratio that FixedBeatRatio computes
\* for it, given back to TargetTotalScale with the same loop count, returns
\* it within 1e-4, per step and per loop, for every N >= 1.
C4_RoundTripRecoversMultiplier ==
    (IsCall("solveBack") /\ res.success)
        => /\ res.repetitions = call.first.repetitions
           /\ WithinRoundTripTol(res.stepScale, call.first.stepScale)
           /\ WithinRoundTripTol(res.beatRatio, call.first.beatRatio)

\* A fixed input of the selected mode is <= 0.
FixedInputNotPositive(i) ==
    CASE i.mode = "TargetTotalScale" -> i.targetReps <= 0 \/ i.targetTotalScale <= 0
      [] i.mode = "FixedBeatRatio" -> i.targetReps <= 0 \/ i.inputBeatRatio <= 0
      [] i.mode = "MatchBeatEnd" -> i.targetReps <= 0 \/ i.inputBeatEnd <= 0
      [] i.mode = "FitToCurve" -> i.inputBeatRatio <= 0 \/ i.targetTotalScale <= 0
      [] i.mode = "FitEndAndRatio" -> i.inputBeatEnd <= 0 \/ i.targetTotalScale <= 0

IsFailedResult(r) ==
    /\ ~r.success
    /\ r.message /= ""
    /\ r.repetitions = 0
    /\ r.realizedScale = 0
    /\ r.errorTicks = 0
    /\ r.errorMs = 0

\* C5: solve returns a failed result (no success, a message, no repetitions,
\* no verification figures) whenever a fixed input of the selected mode is
\* <= 0, and FitToCurve and FitEndAndRatio succeed for every loop count when
\* their own two inputs are positive.
C5_NonPositiveFixedInputFails ==
    IsCall("solve")
        => /\ FixedInputNotPositive(call.in) => IsFailedResult(res)
           /\ (/\ call.in.mode \in {"FitToCurve", "FitEndAndRatio"}
               /\ ~FixedInputNotPositive(call.in)) => res.success

C5_Witness ==
    /\ IsCall("solve")
    /\ call.in.mode = "FitToCurve"
    /\ call.in.inputBeatRatio > 0
    /\ call.in.targetTotalScale <= 0
    /\ IsFailedResult(res)

\* C6: a loaded source with fewer than two distinct grid timestamps has one
\* segment of 960 ticks and a duration of 960; solve on no deltas works on
\* deltas = [960], duration 960, M = 1; and no solve the engine runs, in any
\* mode, divides by zero.
C6_DegenerateSourceNeverDividesByZero ==
    /\ (model.hasLoaded /\ Len(model.timePoints) < 2)
          => /\ model.segmentDeltas = << FallbackDelta * TickScale >>
             /\ model.totalDurationTicks = FallbackDelta * TickScale
    /\ IsCall("runSolver")
          => /\ 0 \notin divisors.by
             /\ model.segmentDeltas = << >>
                   => /\ divisors.deltas = << FallbackDelta * TickScale >>
                      /\ divisors.dur = FallbackDelta * TickScale
                      /\ divisors.segs = 1

C6_Witness ==
    /\ IsCall("runSolver")
    /\ res.success
    /\ model.hasLoaded
    /\ Len(model.timePoints) < 2
    /\ model.segmentDeltas = << FallbackDelta * TickScale >>
    /\ divisors.by /= {}

\* C7: evaluateRatio with s = 1.0 and sourceDuration = sum(deltas) returns
\* N / len(deltas) exactly (the quotient, to the grid).
C7_LinearRatioIsRepeatCount ==
    (IsCall("evaluateRatio") /\ call.s = ONE
       /\ call.sourceDuration = SumSeq(call.deltas))
        => /\ call.result * Len(call.deltas) <= call.n * Scale
           /\ call.n * Scale < (call.result + 1) * Len(call.deltas)

C7_Witness ==
    /\ IsCall("evaluateRatio")
    /\ call.s = ONE
    /\ call.deltas = << 100000, 900000 >>
    /\ call.n = 3
    /\ call.result = (3 * ONE) \div 2

\* The rounded duration of step k, in ticks.
RoundedStep(deltas, s, k) == LLRound(Mul(deltas[(k % Len(deltas)) + 1], Pow(s, k)))

RECURSIVE RoundedTotal(_, _, _)
RoundedTotal(deltas, s, n) ==
    IF n = 0 THEN 0 ELSE RoundedTotal(deltas, s, n - 1) + RoundedStep(deltas, s, n - 1)

\* C8: FixedBeatRatio with loopMultiplier 1, integer-valued deltas and a step
\* count N that is a positive multiple of M: every step's rounded duration is
\* its source delta, the realized total is (N / M) * sourceDuration,
\* realizedScale = totalScale = N / M and errorTicks = 0.
C8_UnitMultiplierRepeatsTheSource ==
    (/\ IsCall("solve")
     /\ call.in.mode = "FixedBeatRatio"
     /\ call.in.inputBeatRatio = ONE
     /\ res.success
     /\ res.repetitions > 0
     /\ res.repetitions % SolveSegs = 0
     /\ \A j \in 1..Len(divisors.deltas) : divisors.deltas[j] % TickScale = 0)
        => /\ \A k \in 0..(res.repetitions - 1) :
                RoundedStep(divisors.deltas, res.stepScale, k) * TickScale
                    = divisors.deltas[(k % SolveSegs) + 1]
           /\ RoundedTotal(divisors.deltas, res.stepScale, res.repetitions) * TickScale
                = (res.repetitions \div SolveSegs) * divisors.dur
           /\ res.realizedScale = res.totalScale
           /\ res.totalScale = (res.repetitions \div SolveSegs) * Scale
           /\ res.errorTicks = 0

C8_Witness ==
    /\ IsCall("solve")
    /\ call.in.mode = "FixedBeatRatio"
    /\ call.in.inputBeatRatio = ONE
    /\ call.deltas = << 480000, 480000 >>
    /\ res.repetitions = 4
    /\ res.realizedScale = 2 * ONE
    /\ res.errorTicks = 0

\* C9: a solve whose inputs pass validation succeeds, and its verification
\* fields are realizedScale = Q / sourceDuration and errorTicks =
\* |Q - sourceDuration * totalScale|, Q the sum over k in [0, N) of the
\* rounded delta[k mod M] * s^k for the solved N and s.
C9_VerificationFields ==
    IsCall("solve")
        => /\ res.success <=> ~FixedInputNotPositive(call.in)
           /\ res.success =>
                LET Q == RoundedTotal(divisors.deltas, res.stepScale, res.repetitions)
                           * TickScale
                IN  /\ res.realizedScale = Div(Q, divisors.dur)
                    /\ res.errorTicks = Abs(Q - Mul(divisors.dur, res.totalScale))

C9_Witness ==
    /\ IsCall("solve")
    /\ res.success
    /\ call.in.mode = "TargetTotalScale"
    /\ res.repetitions = 4
    /\ res.errorTicks > 0
    /\ res.realizedScale /= res.totalScale

LoadFailed == loadResult.message \notin {"none", "ok"}

\* C10: after a load that fails the grid model is cleared (not loaded, no
\* deltas, no buckets, duration 0, 120 bpm), also when a source was loaded
\* before: the failed load discards it.
C10_FailedLoadLeavesModelCleared ==
    LoadFailed
        => /\ ~model.hasLoaded
           /\ model.segmentDeltas = << >>
           /\ model.eventSegments = << >>
           /\ model.totalDurationTicks = 0
           /\ model.initialBpm = DefaultBpm * TickScale

C10_Witness ==
    /\ LoadFailed
    /\ loadResult.replaced
    /\ loadResult.message = "Corrupt or invalid MIDI file."
    /\ model.timePoints = << >>

\* C14: each forward scan returns an N <= max(1000, 100 * M), whatever the
\* target ratio, so that the loops of solve over N are bounded too.
C14_CountIsWithinTheScanLimit ==
    (IsCall("solveRepetitionCount") \/ IsCall("solveRepetitionCountWithFixedEnd"))
        => call.result <= ScanLimit(call.deltas)

\* The fixed inputs of the selected mode that are <= 0.
OffendingFields(i) ==
    {f \in {"loops", "loopMultiplier", "R", "E"} :
        CASE f = "loops" ->
               i.mode \in {"TargetTotalScale", "FixedBeatRatio", "MatchBeatEnd"}
               /\ i.targetReps <= 0
          [] f = "loopMultiplier" ->
               i.mode \in {"FixedBeatRatio", "FitToCurve"} /\ i.inputBeatRatio <= 0
          [] f = "R" ->
               i.mode \in {"TargetTotalScale", "FitToCurve", "FitEndAndRatio"}
               /\ i.targetTotalScale <= 0
          [] f = "E" ->
               i.mode \in {"MatchBeatEnd", "FitEndAndRatio"} /\ i.inputBeatEnd <= 0}

\* The input field a message names, if it names one.
FieldNamedBy(message) ==
    CASE message = "Invalid Repetitions" -> "loops"
      [] message = "Beat Ratio > 0 required" -> "loopMultiplier"
      [] message = "Total Scale > 0 required" -> "R"
      [] message = "Beat End > 0 required" -> "E"
      [] OTHER -> "none"

\* C15: the message of a failed solve names the offending input: when one
\* fixed input of the mode is <= 0, the message names that field, in the two
\* fit modes too.
C15_FailureMessageNamesTheField ==
    (IsCall("solve") /\ Cardinality(OffendingFields(call.in)) = 1)
        => /\ ~res.success
           /\ FieldNamedBy(res.message) \in OffendingFields(call.in)

\* C17: evaluateRatio is non-decreasing in s: for the same deltas and N, a
\* larger multiplier never gives a smaller ratio, across s = 1 as well.
C17_RatioIsMonotoneInMultiplier ==
    IsCall("evaluateRatio")
        => \A s2 \in StepMultipliers :
              call.s < s2
                 => call.result <= compute_duration_with_step_s(
                                       call.deltas, call.n, s2, call.sourceDuration)

\* The sum of the first n step durations of the unscaled repetition.
RECURSIVE DirectSum(_, _)
DirectSum(deltas, n) ==
    IF n = 0 THEN 0 ELSE DirectSum(deltas, n - 1) + deltas[((n - 1) % Len(deltas)) + 1]

\* C18: at s = 1 evaluateRatio returns what the defining sum gives: the sum
\* over k in [0, N) of delta[k mod M], over sourceDuration, for every N.
C18_LinearCaseIsTheDirectSum ==
    (IsCall("evaluateRatio") /\ call.s = ONE)
        => call.result = Div(DirectSum(call.deltas, call.n), call.sourceDuration)

CandidateWindow == 12

\* |R(k) - targetR| of a candidate k of the scan the last call made.
Residual(k) ==
    Abs(compute_duration_with_step_s(call.deltas, k, call.s, SumSeq(call.deltas))
        - call.targetR)

\* C19: solveRepetitionCount returns the candidate of least |R(k) - targetR|
\* among the candidates k = stride, 2 * stride, ..., the smallest of equals:
\* stopping early loses no better candidate.
C19_ScanReturnsTheBestCandidate ==
    IsCall("solveRepetitionCount")
        => \A j \in 1..CandidateWindow :
              /\ Residual(j * call.stride) >= Residual(call.result)
              /\ Residual(j * call.stride) = Residual(call.result)
                    => j * call.stride >= call.result

C19_Witness ==
    /\ IsCall("solveRepetitionCount")
    /\ call.deltas = << 960000 >>
    /\ call.s = ONE
    /\ call.targetR = (3 * ONE) \div 2
    /\ call.result = 1
    /\ Residual(2) = Residual(1)
    /\ Residual(3) > Residual(1)

\* C11: generateOutput returns a failure, and leaves the engine not marked as
\* generated, whenever no source is loaded (nothing was loaded yet, or the
\* most recent loadSource failed), and whenever the model has no segment.
C11_GenerateWithoutSourceFails ==
    (IsCall("generateOutput") /\ (~model.hasLoaded \/ Len(model.segmentDeltas) = 0))
        => /\ call.message = (IF ~model.hasLoaded THEN "No source MIDI loaded."
                              ELSE "Model is empty (no time segments).")
           /\ ~isGenerated

\* A file was generated, the next load failed, and generateOutput was called.
C11_Witness ==
    /\ IsCall("generateOutput")
    /\ ~model.hasLoaded
    /\ loadResult.message \notin {"none", "ok"}
    /\ generatedMidi /= EmptyMidi
    /\ call.message = "No source MIDI loaded."


\* C12: in every track of a generated file, a note-on and a note-off with the
\* same final (rounded) timestamp are in the order note-off, note-on, for
\* every step count and multiplier.
C12_NoteOffPrecedesNoteOnAtEqualTick ==
    (IsCall("generateOutput") /\ call.message = "ok")
        => \A t \in 1..Len(generatedMidi.tracks) :
             \A i, j \in 1..Len(generatedMidi.tracks[t]) :
                ~(/\ i < j
                  /\ generatedMidi.tracks[t][i].kind = "noteOn"
                  /\ generatedMidi.tracks[t][j].kind = "noteOff"
                  /\ generatedMidi.tracks[t][i].time = generatedMidi.tracks[t][j].time)

\* The stored clones of the event ev of source track t (an index from 1),
\* as <<bucket, position>> pairs, and the occurrences of ev in that track.
StoredAs(t, ev) ==
    { p \in UNION { { <<b, i>> : i \in 1..Len(model.eventSegments[b]) } :
                      b \in 1..Len(model.eventSegments) } :
        /\ p[1] <= Len(model.timePoints)
        /\ LET e == model.eventSegments[p[1]][p[2]]
           IN  /\ e.sourceTrackIndex = t - 1
               /\ e.message.kind = ev.kind
               /\ e.message.data = ev.data
               /\ e.message.time = ev.time - model.timePoints[p[1]] }

OccurrencesOf(t, ev) ==
    { i \in 1..Len(model.sourceMidi.tracks[t]) : model.sourceMidi.tracks[t][i] = ev }

StoredTotal == SumSeq([b \in 1..Len(model.eventSegments) |-> Len(model.eventSegments[b])])

SourceTotal ==
    SumSeq([t \in 1..Len(model.sourceMidi.tracks) |->
              Cardinality({ i \in 1..Len(model.sourceMidi.tracks[t]) :
                              ~IsEndOfTrack(model.sourceMidi.tracks[t][i]) })])

\* C13: after a successful load every source event but the end markers is in
\* exactly one bucket, that of the grid line nearest to its time, with the
\* offset time - grid line; an event at or past the last grid line is in the
\* last line's bucket, not in bucket 0, when the grid has more than one line.
C13_EventsAreInTheNearestBucket ==
    model.hasLoaded
        => /\ Len(model.eventSegments) = Len(model.timePoints) + 1
           /\ StoredTotal = SourceTotal
           /\ \A t \in 1..Len(model.sourceMidi.tracks) :
                \A n \in 1..Len(model.sourceMidi.tracks[t]) :
                    LET ev == model.sourceMidi.tracks[t][n]
                    IN  ~IsEndOfTrack(ev)
                            => /\ Cardinality(StoredAs(t, ev)) = Cardinality(OccurrencesOf(t, ev))
                               /\ \A p \in StoredAs(t, ev) :
                                    /\ \A j \in 1..Len(model.timePoints) :
                                          Abs(ev.time - model.timePoints[p[1]])
                                              <= Abs(ev.time - model.timePoints[j])
                                    /\ (/\ Len(model.timePoints) > 1
                                        /\ ev.time >= model.timePoints[Len(model.timePoints)])
                                            => p[1] = Len(model.timePoints)

\* A source with interior grid lines is loaded, and events are stored in an
\* interior bucket and in the bucket of the last grid line.
C13_Witness ==
    /\ model.hasLoaded
    /\ Len(model.timePoints) > 2
    /\ model.eventSegments[2] /= << >>
    /\ model.eventSegments[Len(model.timePoints)] /= << >>
    /\ model.eventSegments[1] /= << >>

\* C16: after every successful load there is at least one segment, every
\* delta is above the 0.001 merge tolerance (the fallback's is 960), and the
\* source duration is the sum of the deltas; so generateOutput never fails for
\* an empty segmentation after a successful load.
C16_LoadedModelHasPositiveSegments ==
    model.hasLoaded
        => /\ Len(model.segmentDeltas) >= 1
           /\ \A i \in 1..Len(model.segmentDeltas) :
                ~TickAtMostInv(model.segmentDeltas[i], GridTolInv)
           /\ (Len(model.timePoints) < 2
                 => model.segmentDeltas = << FallbackDelta * TickScale >>)
           /\ model.totalDurationTicks = SumSeq(model.segmentDeltas)
           /\ (IsCall("generateOutput") => call.message = "ok")

\* generateOutput was called on a loaded source that has a single grid line.
C16_Witness ==
    /\ IsCall("generateOutput")
    /\ model.hasLoaded
    /\ Len(model.timePoints) = 1
    /\ generatedMidi.tracks /= << >>
    /\ isGenerated

\* Whether bucket b (an index from 0) is emitted at step k of n over m
\* segments, as the schedule has it.
ScheduledAt(b, k, n, m) ==
    IF (k % m) + 1 < m THEN b = (k % m) + 1
    ELSE b = m \/ (b = 0 /\ k < n - 1)

\* How often bucket b is emitted by n steps: bucket 0 once at the start.
Emissions(b, n, m) ==
    (IF b = 0 THEN 1 ELSE 0) + Cardinality({ k \in 0..(n - 1) : ScheduledAt(b, k, n, m) })

IsKind(msg, kd) == msg.kind = kd[1] /\ msg.data = kd[2]

OutCount(t, kd) ==
    Cardinality({ i \in 1..Len(generatedMidi.tracks[t]) : IsKind(generatedMidi.tracks[t][i], kd) })

BucketCount(b, t, kd) ==
    Cardinality({ i \in 1..Len(model.eventSegments[b + 1]) :
                    /\ model.eventSegments[b + 1][i].sourceTrackIndex = t - 1
                    /\ IsKind(model.eventSegments[b + 1][i].message, kd) })

SourceCount(t, kd) ==
    Cardinality({ i \in 1..Len(model.sourceMidi.tracks[t]) :
                    /\ ~IsEndOfTrack(model.sourceMidi.tracks[t][i])
                    /\ IsKind(model.sourceMidi.tracks[t][i], kd) })

\* The events generateOutput adds of its own: a tempo and a time signature on
\* the first track, and an end marker on each.
InjectedCount(t, kd) ==
    (IF kd = << "endOfTrack", 0 >> THEN 1 ELSE 0)
        + (IF t = 1 /\ kd = << "timeSignature", TimeSigBeats >> THEN 1 ELSE 0)
        + (IF t = 1 /\ kd = << "tempo", LongDiv(UsPerMinute, model.initialBpm, TickScale, 3) >>
           THEN 1 ELSE 0)

KindsOf(t) ==
    { << generatedMidi.tracks[t][i].kind, generatedMidi.tracks[t][i].data >> :
        i \in 1..Len(generatedMidi.tracks[t]) }
    \cup { << model.sourceMidi.tracks[t][i].kind, model.sourceMidi.tracks[t][i].data >> :
             i \in 1..Len(model.sourceMidi.tracks[t]) }

\* C20: generateOutput emits bucket 0 once at the start, at step k bucket
\* (k mod M) + 1 when that is below M, and at a step that completes a loop the
\* terminal bucket M and, if k < N - 1, bucket 0 again; so for N = L * M with
\* L >= 1 every source event but the end markers is L times in the output, on
\* the track of its source track's index.
C20_BucketsAreEmittedOncePerLoop ==
    (IsCall("generateOutput") /\ call.message = "ok")
        => LET m == Len(model.segmentDeltas)
               n == call.totalSteps
           IN  /\ Len(generatedMidi.tracks) = Len(model.sourceMidi.tracks)
               /\ \A t \in 1..Len(generatedMidi.tracks) :
                    \A kd \in KindsOf(t) :
                        /\ OutCount(t, kd)
                             = SumSeq([b \in 1..(m + 1) |->
                                         Emissions(b - 1, n, m) * BucketCount(b - 1, t, kd)])
                                 + InjectedCount(t, kd)
                        /\ (n >= m /\ n % m = 0)
                             => OutCount(t, kd)
                                  = (n \div m) * SourceCount(t, kd) + InjectedCount(t, kd)

\* Two whole loops were generated from a two-track source with two segments,
\* under a multiplier other than 1.
C20_Witness ==
    /\ IsCall("generateOutput")
    /\ call.message = "ok"
    /\ Len(model.segmentDeltas) = 2
    /\ call.totalSteps = 4
    /\ call.s = 2 * ONE
    /\ Len(generatedMidi.tracks) = 2
    /\ OutCount(2, << "noteOn", 60 >>) = 2

\* The time cursor after step k of the last generateOutput call: the sum of
\* delta[j mod M] * s^j over j in 0..k.
RECURSIVE CursorAfter(_)
CursorAfter(k) ==
    IF k < 0 THEN 0
    ELSE CursorAfter(k - 1)
            + Mul(model.segmentDeltas[(k % Len(model.segmentDeltas)) + 1], Pow(call.s, k))

\* The emissions of the last generateOutput call on track t, as
\* <<step, bucket, position>>; step -1 is the start, where bucket 0 is copied.
EmissionsOn(t) ==
    { p \in UNION { { <<k, b, i>> : i \in 1..Len(model.eventSegments[b + 1]) } :
                      k \in (-1)..(call.totalSteps - 1),
                      b \in 0..Len(model.segmentDeltas) } :
        /\ \/ p[1] = -1 /\ p[2] = 0
           \/ p[1] >= 0 /\ ScheduledAt(p[2], p[1], call.totalSteps, Len(model.segmentDeltas))
        /\ model.eventSegments[p[2] + 1][p[3]].sourceTrackIndex = t - 1 }

\* The final timestamp of an emission: T_k + offset * s^k, rounded; the offset
\* itself at the start.
EmissionTime(p) ==
    LET offset == model.eventSegments[p[2] + 1][p[3]].message.time
    IN  IF p[1] = -1 THEN LLRound(offset) * TickScale
        ELSE LLRound(CursorAfter(p[1]) + ScaledOffset(offset, Pow(call.s, p[1]))) * TickScale

OutCountAt(t, time, kd) ==
    Cardinality({ i \in 1..Len(generatedMidi.tracks[t]) :
                    /\ IsKind(generatedMidi.tracks[t][i], kd)
                    /\ generatedMidi.tracks[t][i].time = time })

InjectedCountAt(t, time, kd) ==
    IF kd[1] = "endOfTrack"
    THEN (IF time = LLRound(CursorAfter(call.totalSteps - 1)) * TickScale THEN 1 ELSE 0)
    ELSE IF time = 0 THEN InjectedCount(t, kd) ELSE 0

\* C21: every event emitted at step k has the time T_k + offset * s^k, T_k the
\* time cursor after step k, also the events of bucket 0 emitted again at the
\* end of a loop; the final timestamp is that time rounded to a whole tick.
C21_EventsAreAtTheScaledCursor ==
    (IsCall("generateOutput") /\ call.message = "ok")
        => \A t \in 1..Len(generatedMidi.tracks) :
             \A kd \in KindsOf(t) :
                \A time \in { generatedMidi.tracks[t][i].time :
                                i \in 1..Len(generatedMidi.tracks[t]) }
                            \cup { EmissionTime(p) : p \in EmissionsOn(t) } :
                    OutCountAt(t, time, kd)
                        = Cardinality({ p \in EmissionsOn(t) :
                                          /\ IsKind(model.eventSegments[p[2] + 1][p[3]].message, kd)
                                          /\ EmissionTime(p) = time })
                            + InjectedCountAt(t, time, kd)

\* Two loops of three segments were generated under a shrinking multiplier,
\* and an event of bucket 0 is in the output at the rounded end of the first
\* loop, a time that is not a whole tick before rounding.
C21_Witness ==
    /\ IsCall("generateOutput")
    /\ call.message = "ok"
    /\ call.totalSteps = 6
    /\ call.s = (3 * ONE) \div 10
    /\ Len(model.segmentDeltas) = 3
    /\ CursorAfter(2) % TickScale /= 0
    /\ OutCountAt(1, LLRound(CursorAfter(2)) * TickScale, << "noteOn", 60 >>) = 1

\* The positions of the end markers of output track t, and the latest time
\* of its other events (0 if there is none).
EndMarkersOf(t) ==
    { i \in 1..Len(generatedMidi.tracks[t]) : IsEndOfTrack(generatedMidi.tracks[t][i]) }

LatestOtherTime(t) ==
    LET times == { generatedMidi.tracks[t][i].time :
                     i \in (1..Len(generatedMidi.tracks[t])) \ EndMarkersOf(t) }
    IN  IF times = {} THEN 0 ELSE CHOOSE x \in times : \A y \in times : y <= x

\* C22: every track of a generated file has exactly one end-of-track marker,
\* it is the last event of the track, and its time is the latest time of the
\* other events of that same track.
C22_EndMarkerIsAtTheTracksLatestEvent ==
    (IsCall("generateOutput") /\ call.message = "ok")
        => \A t \in 1..Len(generatedMidi.tracks) :
             /\ EndMarkersOf(t) = { Len(generatedMidi.tracks[t]) }
             /\ generatedMidi.tracks[t][Len(generatedMidi.tracks[t])].time = LatestOtherTime(t)

\* The tempo events of the generated file, as <<track, position>>.
TempoEvents ==
    UNION { { <<t, i>> : i \in { j \in 1..Len(generatedMidi.tracks[t]) :
                                   generatedMidi.tracks[t][j].kind = "tempo" } } :
            t \in 1..Len(generatedMidi.tracks) }

\* C26: the only tempo event of a generated file is the one injected at time
\* 0 on the first track; no tempo event is at a time above 0 on any track.
C26_SingleTempoAtTheStart ==
    (IsCall("generateOutput") /\ call.message = "ok")
        => /\ Cardinality(TempoEvents) = 1
           /\ \A p \in TempoEvents :
                /\ p[1] = 1
                /\ generatedMidi.tracks[p[1]][p[2]].time = 0
                /\ generatedMidi.tracks[p[1]][p[2]].data
                     = LongDiv(UsPerMinute, model.initialBpm, TickScale, 3)

\* C23: over any sequence of loadSource, runSolver, generateOutput and
\* saveFile calls, the engine holds generated output only while a source is
\* loaded; saveFile answers "Nothing to save." exactly when the flag is not
\* set; every loadSource unsets the flag, only a generateOutput that succeeds
\* sets it, and runSolver and saveFile change neither flag.
C23_GeneratedOnlyAfterLoadAndGenerate ==
    /\ [](isGenerated => model.hasLoaded)
    /\ [](IsCall("saveFile") => (~isGenerated <=> call.message = "Nothing to save."))
    /\ [][/\ call'.op = "loadSource" => ~isGenerated'
          /\ call'.op \in {"runSolver", "saveFile"}
                => (isGenerated' = isGenerated /\ model'.hasLoaded = model.hasLoaded)
          /\ (isGenerated' /\ ~isGenerated)
                => (call'.op = "generateOutput" /\ call'.message = "ok")]_vars

\* Output was generated, another source was loaded since, and saveFile was
\* called.
C23_Witness ==
    /\ IsCall("saveFile")
    /\ call.message = "Nothing to save."
    /\ model.hasLoaded
    /\ loadResult.replaced
    /\ generatedMidi.tracks /= << >>
    /\ ~isGenerated

\* C25: in the window, over any sequence of loads, ejects, solves,
\* generations and saves, GENERATE is enabled only while a source is loaded
\* and SAVE only while the engine holds generated output.
C25_ButtonsFollowTheEngine ==
    /\ generateButton => model.hasLoaded
    /\ saveButton => isGenerated

\* C24: the drift diagnostics describe the generated stream: for a solved
\* (N, s) over positive deltas, the realized total of solve's verification
\* (the sum of the rounded step durations) is the tick of the end-of-track
\* marker generateOutput produces for the same (N, s).
C24_RealizedTotalIsTheEndOfTheOutput ==
    (/\ IsCall("generateClick")
     /\ res.success
     /\ call.message = "ok"
     /\ \A j \in 1..Len(model.segmentDeltas) : model.segmentDeltas[j] > 0)
        => \A t \in 1..Len(generatedMidi.tracks) :
             generatedMidi.tracks[t][Len(generatedMidi.tracks[t])].time
                = RoundedTotal(model.segmentDeltas, res.stepScale, res.repetitions) * TickScale

=============================================================================
